---- MODULE Spec2Model ----
(***************************************************************************)
(* aoc2025: the button-machine optimizer of day 10 with the module-level   *)
(* example check of day10.py, the retrying fetch of aoc_utils.py           *)
(* (fetch_problem_part2) and the path counters of day 11 (count_paths,     *)
(* count_paths_dp).                                                        *)
(*                                                                         *)
(* Two programs solve the same input: day10.py (solve_part1 with the       *)
(* brute-force solve_gf2, solve_part2 with solve_joltage) and              *)
(* day10_chatgpt.py (compute_total_part1 with gf2_solve_minweight,         *)
(* compute_total_part2 with solve_machine_minpresses).  A run is one       *)
(* program computing one part over a list of input lines.                  *)
(*                                                                         *)
(* Python lists and arrays are functions over 0..len-1, so that indices    *)
(* are the source's.  A button is the list of indices written in its       *)
(* parentheses, in the order written, repetitions kept.                    *)
(***************************************************************************)
EXTENDS Integers, Sequences, FiniteSets, TLC

VARIABLES
    prog,        \* "day10" | "chatgpt": which program runs
    part,        \* 1 | 2: which aggregate it computes
    lines,       \* the input: a sequence of parsed lines
    li,          \* number of lines consumed by the aggregator's for loop
    total,       \* the aggregator's running total
    pc,          \* "loop" | "elim" | "finish" | "done" | "raised"
    M,           \* gf2_solve_minweight: the augmented matrix
    pivot_cols,  \* gf2_solve_minweight: pivot column per row, -1 if none
    r,           \* gf2_solve_minweight: number of pivots found
    c,           \* gf2_solve_minweight: the column the for loop visits next
    x_lp,        \* solve_joltage: result.x of the last linprog call
    stage,       \* solve_joltage: which return statement was taken
    min_presses, \* value returned by the last solver call
    args,        \* the objects the aggregator handed to the last solver call
    max_retries, \* fetch_problem_part2: its argument
    attempt,     \* fetch_problem_part2: the loop variable
    fetched,     \* fetch_problem_part2: how each fetch made so far ended
    fetch_pc,    \* "idle" | "loop" | "returned" | "raised"
    fetch_result,\* fetch_problem_part2: what it returned
    graph,       \* day11: adjacency lists, source -> list of targets
    start,       \* day11: start node
    end,         \* day11: end node
    required_nodes, \* day11: the nodes a counted path must visit
    paths,       \* day11: the count returned, -1 before the call
    visited,     \* day11: count_paths' visited set
    script_pc,   \* day10.py module level: "idle" | "part1" | "part2" |
                 \*   "check" | "get_data" | "solve" | "submit" | "end" |
                 \*   "raised"
    example_lines, \* day10.py module level: the lines of example
    result1,     \* day10.py module level: solve_part1(example)
    result2,     \* day10.py module level: solve_part2(example)
    data,        \* day10.py module level: the lines get_data returned
    ans2,        \* day10.py module level: solve_part2(data)
    printed,     \* day10.py module level: what was printed, in order
    submitted    \* day10.py module level: the calls of submit, in order

day10_vars == <<prog, part, lines, li, total, pc, M, pivot_cols, r, c, x_lp,
                stage, min_presses, args>>
fetch_vars == <<max_retries, attempt, fetched, fetch_pc, fetch_result>>
day11_vars == <<graph, start, end, required_nodes, paths, visited>>
script_vars == <<script_pc, example_lines, result1, result2, data, ans2,
                 printed, submitted>>
vars == <<day10_vars, fetch_vars, day11_vars, script_vars>>

(***************************************************************************)
(* Bounds of the enumeration of machines.                                  *)
(***************************************************************************)
MaxButtons == 3
MaxCount == 2
\* numbers of lights (= counters) of the enumerated machines
Sizes == {1, 2, 3}

(***************************************************************************)
(* Values: a Python number that may be float('inf').                       *)
(***************************************************************************)
Fin(k) == [inf |-> FALSE, n |-> k]
Inf == [inf |-> TRUE, n |-> 0]
\* a faulty Plus: total = min_presses
PlusLast(a, b) == b
\* total += min_presses
Plus(a, b) == IF a.inf \/ b.inf THEN Inf ELSE Fin(a.n + b.n)

Idx(k) == 0 .. (k - 1)
Size(f) == Cardinality(DOMAIN f)
Zeros(k) == [i \in Idx(k) |-> 0]

RECURSIVE SumTo(_, _)
SumTo(f, k) == IF k = 0 THEN 0 ELSE f[k - 1] + SumTo(f, k - 1)
Sum(f) == SumTo(f, Size(f))

MinOf(S) == CHOOSE a \in S : \A b \in S : a <= b
MaxOf(S) == CHOOSE a \in S : \A b \in S : a >= b

RECURSIVE Pow2(_)
Pow2(k) == IF k = 0 THEN 1 ELSE 2 * Pow2(k - 1)

\* number of times index i is written in the button
Occ(btn, i) == Cardinality({k \in 1 .. Len(btn) : btn[k] = i})

(***************************************************************************)
(* day10.py                                                                *)
(***************************************************************************)
(* state[light] (day10.py line 42), A[i][j] (line 71) and row[idx]          *)
(* (day10_chatgpt.py lines 25 and 88) raise IndexError when an index         *)
(* written in a button is not below the length n of the list or array.     *)
(* The regular expressions admit digits only, so no index is negative.     *)
IndexErrorPastEnd(n, buttons) ==
    \E j \in DOMAIN buttons : \E k \in 1 .. Len(buttons[j]) : buttons[j][k] > n

IndexError(n, buttons) ==
    \E j \in DOMAIN buttons : \E k \in 1 .. Len(buttons[j]) : buttons[j][k] >= n

\* parse_machine: the bits between [ ] and the buttons
parse_machine(line) == [target |-> line.lights, buttons |-> line.buttons]

\* parse_joltage: the integers between { }
parse_joltage(line) == line.joltage

\* a faulty ToggleFrom: state[light] = 1, a light is switched on, never off
RECURSIVE ToggleSet(_, _, _)
ToggleSet(state, btn, k) ==
    IF k > Len(btn) THEN state
    ELSE ToggleSet([state EXCEPT ![btn[k]] = 1], btn, k + 1)

\* for light in buttons[button_idx]: state[light] ^= 1
RECURSIVE ToggleFrom(_, _, _)
ToggleFrom(state, btn, k) ==
    IF k > Len(btn) THEN state
    ELSE ToggleFrom([state EXCEPT ![btn[k]] = 1 - @], btn, k + 1)

\* mask & (1 << button_idx)
MaskBit(mask, j) == (mask \div Pow2(j)) % 2

\* the inner for loop of solve_gf2: the state and the presses of one mask
RECURSIVE PressFrom(_, _, _, _)
PressFrom(acc, buttons, mask, j) ==
    IF j = Size(buttons) THEN acc
    ELSE PressFrom(IF MaskBit(mask, j) = 1
                   THEN [state |-> ToggleFrom(acc.state, buttons[j], 1),
                         presses |-> acc.presses + 1]
                   ELSE acc,
                   buttons, mask, j + 1)

MaskOutcome(n_lights, buttons, mask) ==
    PressFrom([state |-> Zeros(n_lights), presses |-> 0], buttons, mask, 0)

\* a faulty solve_gf2: return min_presses, float('inf') when no mask works
solve_gf2_inf(target, buttons) ==
    LET outcomes == {MaskOutcome(Size(target), buttons, mask) :
                        mask \in 0 .. (Pow2(Size(buttons)) - 1)}
        works == {o \in outcomes : o.state = target}
    IN  IF works = {} THEN Inf
        ELSE Fin(MinOf({o.presses : o \in works}))

\* a faulty solve_gf2: for mask in range(1, lefted_buttons)
solve_gf2_from_one(target, buttons) ==
    LET n_lights == Size(target)
        n_buttons == Size(buttons)
        outcomes == {MaskOutcome(n_lights, buttons, mask) :
                        mask \in 1 .. (Pow2(n_buttons) - 1)}
        works == {o \in outcomes : o.state = target}
    IN  IF works = {} THEN Fin(0)
        ELSE Fin(MinOf({o.presses : o \in works}))

\* solve_gf2: minimum over all 2^n_buttons masks, 0 when no mask works
solve_gf2(target, buttons) ==
    LET n_lights == Size(target)
        n_buttons == Size(buttons)
        outcomes == {MaskOutcome(n_lights, buttons, mask) :
                        mask \in 0 .. (Pow2(n_buttons) - 1)}
        works == {o \in outcomes : o.state = target}
    IN  IF works = {} THEN Fin(0)
        ELSE Fin(MinOf({o.presses : o \in works}))

(***************************************************************************)
(* day10_chatgpt.py, part 1                                                *)
(***************************************************************************)
\* a faulty RowFrom: row[idx] = 1
RECURSIVE RowFromSet(_, _, _)
RowFromSet(row, btn, k) ==
    IF k > Len(btn) THEN row
    ELSE RowFromSet([row EXCEPT ![btn[k]] = 1], btn, k + 1)

\* for idx in btn: row[idx] ^= 1  (lines 87-88), from the k-th index on
RECURSIVE RowFrom(_, _, _)
RowFrom(row, btn, k) ==
    IF k > Len(btn) THEN row
    ELSE RowFrom([row EXCEPT ![btn[k]] = 1 - @], btn, k + 1)

\* parse_line_part1: one row per button, built from [0]*n
parse_line_part1(line) ==
    [target |-> line.lights,
     A |-> [j \in DOMAIN line.buttons |->
               RowFrom(Zeros(Size(line.lights)), line.buttons[j], 1)]]

\* M = concatenate([A.T, b], axis=1): rows = lights, cols = buttons + 1
Augmented(target, A) ==
    LET m == Size(A)
    IN  [i \in DOMAIN target |->
            [k \in Idx(m + 1) |-> IF k < m THEN A[k][i] ELSE target[i]]]

\* a faulty XorRow: M[i, :-1] ^= M[r, :-1], the augmented entry is kept
XorRowCoefficients(a, b) ==
    [k \in DOMAIN a |-> IF k = Size(a) - 1 THEN a[k] ELSE (a[k] + b[k]) % 2]

\* a faulty XorRow: M[i] |= M[r]
OrRow(a, b) == [k \in DOMAIN a |-> IF a[k] + b[k] > 0 THEN 1 ELSE 0]

\* M[i] ^= M[r]
XorRow(a, b) == [k \in DOMAIN a |-> (a[k] + b[k]) % 2]

\* a faulty Eliminate: for i in range(r + 1, rows), rows above are kept
EliminateBelow(Mx, p, row, col) ==
    LET swapped == [Mx EXCEPT ![p] = Mx[row], ![row] = Mx[p]]
    IN  [i \in DOMAIN Mx |->
            IF i > row /\ swapped[i][col] = 1
            THEN XorRow(swapped[i], swapped[row])
            ELSE swapped[i]]

\* a faulty Eliminate: the pivot row is not swapped into position
EliminateNoSwap(Mx, p, row, col) ==
    [i \in DOMAIN Mx |->
        IF i # row /\ Mx[i][col] = 1 THEN XorRow(Mx[i], Mx[row]) ELSE Mx[i]]

\* one pass of "for c in range(m)" after a pivot was found in row p
Eliminate(Mx, p, row, col) ==
    LET swapped == [Mx EXCEPT ![p] = Mx[row], ![row] = Mx[p]]
    IN  [i \in DOMAIN Mx |->
            IF i # row /\ swapped[i][col] = 1
            THEN XorRow(swapped[i], swapped[row])
            ELSE swapped[i]]

\* pivots, free columns, particular solution, null-space vectors
Pivots(pcols) == {pcols[i] : i \in DOMAIN pcols} \ {-1}
Free(pcols, m) == Idx(m) \ Pivots(pcols)

\* a faulty Particular: xp[pc] = M[i, pc], the pivot entry
ParticularPivot(Mx, pcols, m) ==
    [j \in Idx(m) |-> IF j \in Pivots(pcols) THEN 1 ELSE 0]

Particular(Mx, pcols, m) ==
    [j \in Idx(m) |->
        IF j \in Pivots(pcols)
        THEN Mx[CHOOSE i \in DOMAIN pcols : pcols[i] = j][m]
        ELSE 0]

\* a faulty NullVec: the pivot unknowns are not back-substituted
NullVecUnit(Mx, pcols, m, fc) == [j \in Idx(m) |-> IF j = fc THEN 1 ELSE 0]

NullVec(Mx, pcols, m, fc) ==
    [j \in Idx(m) |->
        IF j = fc THEN 1
        ELSE IF j \in Pivots(pcols)
             THEN Mx[CHOOSE i \in DOMAIN pcols : pcols[i] = j][fc]
             ELSE 0]

XorVec(a, b) == [k \in DOMAIN a |-> (a[k] + b[k]) % 2]

RECURSIVE XorAll(_, _)
XorAll(x, vs) ==
    IF vs = {} THEN x
    ELSE LET v == CHOOSE w \in vs : TRUE IN XorAll(XorVec(x, v), vs \ {v})

\* the vectors x the final loop over product([0,1], repeat=len(free)) builds
Evaluated(Mx, pcols, m) ==
    LET xp == Particular(Mx, pcols, m)
    IN  {XorAll(xp, {NullVec(Mx, pcols, m, fc) : fc \in chosen}) :
            chosen \in SUBSET Free(pcols, m)}

\* rows without pivot whose augmented entry is 1
Inconsistent(Mx, pcols, m) ==
    \E i \in DOMAIN Mx : pcols[i] = -1 /\ Mx[i][m] = 1

\* lines 126-159 of gf2_solve_minweight
MinWeight(Mx, pcols, m) ==
    IF Inconsistent(Mx, pcols, m) THEN Inf
    ELSE Fin(MinOf({Sum(x) : x \in Evaluated(Mx, pcols, m)}))

(***************************************************************************)
(* day10.py, solve_joltage                                                 *)
(***************************************************************************)
\* A[i][j] = 1 for every i written in button j (lines 68-71)
JoltageMatrix(n_counters, buttons) ==
    [i \in Idx(n_counters) |->
        [j \in DOMAIN buttons |-> IF Occ(buttons[j], i) > 0 THEN 1 ELSE 0]]

\* A @ x
MatVec(A, x) == [i \in DOMAIN A |-> Sum([j \in DOMAIN x |-> A[i][j] * x[j]])]

(* Rational vectors: x[j] = num[j] / den with den > 0, in lowest terms. *)
Abs(a) == IF a < 0 THEN -a ELSE a

RECURSIVE Gcd(_, _)
Gcd(a, b) == IF b = 0 THEN a ELSE Gcd(b, a % b)

RECURSIVE GcdTo(_, _, _)
GcdTo(f, k, g) == IF k = 0 THEN g ELSE GcdTo(f, k - 1, Gcd(g, Abs(f[k - 1])))

Rat(num, den) ==
    LET g == GcdTo(num, Size(num), den)
    IN  [num |-> [j \in DOMAIN num |-> num[j] \div g], den |-> den \div g]

\* the ascending list of a set of indices
RECURSIVE Ascending(_)
Ascending(S) ==
    IF S = {} THEN <<>>
    ELSE LET a == MinOf(S) IN <<a>> \o Ascending(S \ {a})

\* determinant of a square matrix given as a sequence of rows
RECURSIVE Det(_)
Det(S) ==
    LET k == Len(S)
        term(j) == IF S[1][j] = 0 THEN 0
                   ELSE (IF j % 2 = 1 THEN 1 ELSE -1) * S[1][j]
                        * Det([i \in 1 .. (k - 1) |->
                                  [q \in 1 .. (k - 1) |->
                                      S[i + 1][IF q < j THEN q ELSE q + 1]]])
    IN  CASE k = 0 -> 1
          [] k = 1 -> S[1][1]
          [] k = 2 -> S[1][1] * S[2][2] - S[1][2] * S[2][1]
          [] k = 3 -> S[1][1] * (S[2][2] * S[3][3] - S[2][3] * S[3][2])
                      - S[1][2] * (S[2][1] * S[3][3] - S[2][3] * S[3][1])
                      + S[1][3] * (S[2][1] * S[3][2] - S[2][2] * S[3][1])
          [] OTHER -> SumTo([j \in Idx(k) |-> term(j + 1)], k)

(* The basic solution of A x = b on rows R and columns B (Cramer's rule):  *)
(* zero outside B.  Defined when the square system is regular.             *)
BasicSolution(A, b, R, B) ==
    LET Rs == Ascending(R)
        Bs == Ascending(B)
        k == Len(Rs)
        S == [p \in 1 .. k |-> [q \in 1 .. k |-> A[Rs[p]][Bs[q]]]]
        d == Det(S)
        sg == IF d < 0 THEN -1 ELSE 1
        col(t) == Det([p \in 1 .. k |->
                         [q \in 1 .. k |-> IF q = t THEN b[Rs[p]] ELSE S[p][q]]])
        pos(j) == CHOOSE t \in 1 .. k : Bs[t] = j
    IN  [regular |-> d # 0,
         x |-> IF d = 0 THEN [num |-> <<>>, den |-> 1]
               ELSE Rat([j \in Idx(Size(A[0])) |->
                           IF j \in B THEN sg * col(pos(j)) ELSE 0],
                        Abs(d))]

\* A x = b and x >= 0 for a rational x
RatFeasible(A, b, x) ==
    /\ \A j \in DOMAIN x.num : x.num[j] >= 0
    /\ MatVec(A, x.num) = [i \in DOMAIN b |-> x.den * b[i]]

\* the vertices of {x >= 0 : A x = b}
Vertices(A, b) ==
    LET n == Size(A)
        m == Size(A[0])
        bases == {rb \in (SUBSET Idx(n)) \X (SUBSET Idx(m)) :
                     Cardinality(rb[1]) = Cardinality(rb[2])}
        sols == {BasicSolution(A, b, rb[1], rb[2]) : rb \in bases}
    IN  {s.x : s \in {t \in sols : t.regular /\ RatFeasible(A, b, t.x)}}

\* sum(x) <= sum(y) for rational vectors
SumLeq(x, y) == Sum(x.num) * y.den <= Sum(y.num) * x.den

Midpoint(x, y) ==
    Rat([j \in DOMAIN x.num |-> x.num[j] * y.den + y.num[j] * x.den],
        2 * x.den * y.den)

(* linprog(c = ones, A_eq, b_eq, x >= 0): the optimal points it may return.*)
(* Every button holds an index, so the feasible set is bounded and the     *)
(* minimum is attained at a vertex; the simplex method returns an optimal  *)
(* vertex, another method may return a point between optimal vertices.     *)
(* The empty set means result.success is False.                            *)
linprog(A, b) ==
    LET V == Vertices(A, b)
        best == {v \in V : \A w \in V : SumLeq(v, w)}
    IN  best \cup {Midpoint(u, v) : u \in best, v \in best}

\* a faulty RoundHalfEven: one above the floor, integers included
RoundAboveFloor(a, den) == (a \div den) + 1

\* np.round (half to even), np.ceil, np.floor of num / den
RoundHalfEven(a, den) ==
    LET q == a \div den
        t == 2 * (a % den)
    IN  IF t < den THEN q
        ELSE IF t > den THEN q + 1
        ELSE IF q % 2 = 0 THEN q ELSE q + 1
Ceil(a, den) == IF a % den = 0 THEN a \div den ELSE (a \div den) + 1
Floor(a, den) == a \div den

x_rounded(x) == [j \in DOMAIN x.num |-> RoundHalfEven(x.num[j], x.den)]
x_ceil(x) == [j \in DOMAIN x.num |-> Ceil(x.num[j], x.den)]
x_floor(x) == [j \in DOMAIN x.num |-> Floor(x.num[j], x.den)]

\* a faulty Accepts: the equality is not tested
AcceptsAny(A, b, x) == \A j \in DOMAIN x : x[j] >= 0

\* np.all(A @ x == b_eq) and np.all(x >= 0)
Accepts(A, b, x) == MatVec(A, x) = b /\ \A j \in DOMAIN x : x[j] >= 0

(* Minimum of sum(x) over integer x >= 0 with A x = b, columns j.. only;   *)
(* -1 when there is none.  res is what is left of b.                       *)
RECURSIVE MinSumFrom(_, _, _)
MinSumFrom(A, res, j) ==
    LET m == Size(A[0])
        rows == {i \in DOMAIN A : A[i][j] > 0}
        cap == IF rows = {} THEN 0
               ELSE MinOf({res[i] \div A[i][j] : i \in rows})
        tails == {<<k, MinSumFrom(A, [i \in DOMAIN A |-> res[i] - k * A[i][j]],
                                  j + 1)>> : k \in 0 .. cap}
        good == {t \in tails : t[2] >= 0}
    IN  IF j = m THEN (IF \A i \in DOMAIN res : res[i] = 0 THEN 0 ELSE -1)
        ELSE IF good = {} THEN -1
        ELSE MinOf({t[1] + t[2] : t \in good})

\* milp(c = ones, integrality, A x == b, x >= 0): lines 111-122
milp(A, b) ==
    LET v == MinSumFrom(A, b, 0) IN IF v < 0 THEN Inf ELSE Fin(v)

\* a faulty AfterLP: line 108's base is returned instead of the milp optimum
AfterLP_base(A, b, x) ==
    IF Accepts(A, b, x_rounded(x))
    THEN [stage |-> "round", value |-> Fin(Sum(x_rounded(x)))]
    ELSE IF Accepts(A, b, x_ceil(x))
    THEN [stage |-> "ceil", value |-> Fin(Sum(x_ceil(x)))]
    ELSE IF Accepts(A, b, x_floor(x))
    THEN [stage |-> "floor", value |-> Fin(Sum(x_floor(x)))]
    ELSE [stage |-> "milp", value |-> Fin(Sum(x_floor(x)))]

\* lines 88-122 of solve_joltage, given result.x
AfterLP(A, b, x) ==
    IF Accepts(A, b, x_rounded(x))
    THEN [stage |-> "round", value |-> Fin(Sum(x_rounded(x)))]
    ELSE IF Accepts(A, b, x_ceil(x))
    THEN [stage |-> "ceil", value |-> Fin(Sum(x_ceil(x)))]
    ELSE IF Accepts(A, b, x_floor(x))
    THEN [stage |-> "floor", value |-> Fin(Sum(x_floor(x)))]
    ELSE [stage |-> "milp", value |-> milp(A, b)]

\* solve_joltage: the outcomes over the points linprog may return
NoX == [num |-> <<>>, den |-> 1]
solve_joltage(target, buttons) ==
    LET A == JoltageMatrix(Size(target), buttons)
        xs == linprog(A, target)
    IN  IF xs = {}
        THEN {[x |-> NoX, stage |-> "lp_failed", value |-> Inf]}
        ELSE {[x |-> x] @@ AfterLP(A, target, x) : x \in xs}

(***************************************************************************)
(* day10_chatgpt.py, part 2                                                *)
(***************************************************************************)
\* parse_line_part2: row[idx] += 1; A is buttons x counters
parse_line_part2(line) ==
    [target |-> line.joltage,
     A |-> [j \in DOMAIN line.buttons |->
               [i \in DOMAIN line.joltage |-> Occ(line.buttons[j], i)]]]

Transpose(A, k) == [i \in Idx(k) |-> [j \in DOMAIN A |-> A[j][i]]]

\* solve_machine_minpresses: the CBC optimum, or ValueError
solve_machine_minpresses(target, A) ==
    LET v == MinSumFrom(Transpose(A, Size(target)), target, 0)
    IN  IF v < 0 THEN [raised |-> TRUE, value |-> Inf]
        ELSE [raised |-> FALSE, value |-> Fin(v)]

(***************************************************************************)
(* Inputs                                                                  *)
(***************************************************************************)
\* a parsed input line: lights [.##.], buttons (..) (..), joltage {..}
Line(lights, buttons, joltage) ==
    [lights |-> lights, buttons |-> buttons, joltage |-> joltage]

\* a Python list literal
List(s) == [i \in Idx(Len(s)) |-> s[i + 1]]

(* The buttons of the enumerated machines on n lights: every non-empty set *)
(* of indices written in ascending order, and (0,0), an index written      *)
(* twice.                                                                  *)
ButtonLists(n) ==
    {Ascending(S) : S \in (SUBSET Idx(n)) \ {{}}} \cup {<<0, 0>>}

\* the lists of at most MaxButtons such buttons
Buttons(n) == UNION {[Idx(m) -> ButtonLists(n)] : m \in 1 .. MaxButtons}

(* Part 2 hands the buttons to linprog, milp and CBC as the columns of a   *)
(* matrix, and none of the three depends on which column comes first: its  *)
(* machines are enumerated up to the order of their buttons, the lists in  *)
(* which the buttons' keys never decrease.                                 *)
RECURSIVE Pow3(_)
Pow3(k) == IF k = 0 THEN 1 ELSE 3 * Pow3(k - 1)
Key(btn) == Sum([k \in Idx(Len(btn)) |-> Pow3(btn[k + 1])])
Ordered(buttons) ==
    \A j \in DOMAIN buttons :
        (j + 1) \in DOMAIN buttons => Key(buttons[j]) <= Key(buttons[j + 1])

\* the example of day10.py lines 150-152 and day10_chatgpt.py lines 179-183
example ==
    << Line(List(<<0, 1, 1, 0>>),
            List(<< <<3>>, <<1, 3>>, <<2>>, <<2, 3>>, <<0, 2>>, <<0, 1>> >>),
            List(<<3, 5, 4, 7>>)),
       Line(List(<<0, 0, 0, 1, 0>>),
            List(<< <<0, 2, 3, 4>>, <<2, 3>>, <<0, 4>>, <<0, 1, 2>>,
                    <<1, 2, 3, 4>> >>),
            List(<<7, 5, 12, 7, 2>>)),
       Line(List(<<0, 1, 1, 1, 0, 1>>),
            List(<< <<0, 1, 2, 3, 4>>, <<0, 3, 4>>, <<0, 1, 2, 4, 5>>,
                    <<1, 2>> >>),
            List(<<10, 11, 11, 5, 10, 5>>)) >>

\* inputs made of example lines: every list of distinct lines of the example
ExampleInputs ==
    LET picks == UNION {[1 .. k -> 1 .. 3] : k \in 1 .. 3}
        distinct == {p \in picks : \A i, j \in DOMAIN p : p[i] = p[j] => i = j}
    IN  {[i \in DOMAIN p |-> example[p[i]]] : p \in distinct}

\* no call of fetch_problem_part2, no call into day11.py
FetchIdle ==
    /\ max_retries = 0
    /\ attempt = 0
    /\ fetched = <<>>
    /\ fetch_pc = "idle"
    /\ fetch_result = ""

Day11Idle ==
    /\ graph = <<>>
    /\ start = ""
    /\ end = ""
    /\ required_nodes = {}
    /\ paths = -1
    /\ visited = {}

\* the module-level statements of day10.py are not run
NoResult == [inf |-> FALSE, n |-> -1]
ScriptIdle ==
    /\ script_pc = "idle"
    /\ example_lines = <<>>
    /\ result1 = NoResult
    /\ result2 = NoResult
    /\ data = <<>>
    /\ ans2 = NoResult
    /\ printed = <<>>
    /\ submitted = <<>>

\* no run of day10.py or day10_chatgpt.py
Day10Idle ==
    /\ prog = ""
    /\ part = 0
    /\ lines = <<>>
    /\ li = 0
    /\ total = Fin(0)
    /\ pc = "idle"
    /\ M = <<>>
    /\ pivot_cols = <<>>
    /\ r = 0
    /\ c = 0
    /\ x_lp = NoX
    /\ stage = "none"
    /\ min_presses = Fin(0)
    /\ args = <<>>

(***************************************************************************)
(* The runs                                                                *)
(***************************************************************************)
Rest10 ==
        /\ li = 0
        /\ total = Fin(0)
        /\ pc = "loop"
        /\ M = <<>>
        /\ pivot_cols = <<>>
        /\ r = 0
        /\ c = 0
        /\ x_lp = NoX
        /\ stage = "none"
        /\ min_presses = Fin(0)
        /\ args = <<>>

Rest == Rest10 /\ FetchIdle /\ Day11Idle /\ ScriptIdle

(* Inputs of several lines.  The lines are drawn from a few machines that   *)
(* between them take every exit of the four line handlers:                 *)
(*   [#] (0) {3}                        solvable under both models         *)
(*   [#.] (0,1) {1,0}                   no solution under either model     *)
(*   [.] (0,0) {2}                      an index written twice             *)
(*   [###] (0,1) (1,2) (0,2) (0) {1,1,1}  fractional LP optimum, milp      *)
(*   [#] (1) {1}                        index 1 with one light             *)
(*   [#.] (0) (0,2) {1,1}               index 2 with two lights            *)
(*   [#.] (0) {1}                       two lights, one joltage value      *)
MaxLines == 2

Machines ==
    { Line(List(<<1>>), List(<< <<0>> >>), List(<<3>>)),
      Line(List(<<1, 0>>), List(<< <<0, 1>> >>), List(<<1, 0>>)),
      Line(List(<<0>>), List(<< <<0, 0>> >>), List(<<2>>)),
      Line(List(<<1, 1, 1>>),
           List(<< <<0, 1>>, <<1, 2>>, <<0, 2>>, <<0>> >>),
           List(<<1, 1, 1>>)),
      Line(List(<<1>>), List(<< <<1>> >>), List(<<1>>)),
      Line(List(<<1, 0>>), List(<< <<0>>, <<0, 2>> >>), List(<<1, 1>>)),
      Line(List(<<1, 0>>), List(<< <<0>> >>), List(<<1>>)) }

\* either program, either part, on 1..MaxLines lines
InitSequence ==
    /\ prog \in {"day10", "chatgpt"}
    /\ part \in {1, 2}
    /\ \E k \in 1 .. MaxLines : lines \in [1 .. k -> Machines]
    /\ Rest

(* One machine per run, every small machine.  Part 1 never reads the       *)
(* joltage group and part 2 never uses the lights, so the group that is    *)
(* not read is all zero.                                                   *)
InitBinary ==
    /\ prog \in {"day10", "chatgpt"}
    /\ part = 1
    /\ \E n \in Sizes :
         \E buttons \in Buttons(n) :
           \E lights \in [Idx(n) -> {0, 1}] :
              lines = <<Line(lights, buttons, Zeros(n))>>
    /\ Rest

InitCounter ==
    /\ prog \in {"day10", "chatgpt"}
    /\ part = 2
    /\ \E n \in Sizes :
         \E buttons \in Buttons(n) :
           /\ Ordered(buttons)
           /\ \E joltage \in [Idx(n) -> 0 .. MaxCount] :
                 lines = <<Line(Zeros(n), buttons, joltage)>>
    /\ Rest

\* part 1 of day10_chatgpt.py alone
InitElim == InitBinary /\ prog = "chatgpt"

\* part 2 of day10.py alone
InitJoltage == InitCounter /\ prog = "day10"

(* solve_part1 of day10.py on two lines: the machine [#] (0) {3}, which    *)
(* needs one press, then any small machine.                                *)
InitPart1 ==
    /\ prog = "day10"
    /\ part = 1
    /\ \E n \in Sizes :
         \E buttons \in Buttons(n) :
           \E lights \in [Idx(n) -> {0, 1}] :
              lines = << Line(List(<<1>>), List(<< <<0>> >>), List(<<3>>)),
                         Line(lights, buttons, Zeros(n)) >>
    /\ Rest

MaxWritten == 3

(* Part 1 of either program on one machine whose first button is any list  *)
(* of one to MaxWritten indices, repetitions included, alone or followed   *)
(* by one of the buttons above.                                            *)
InitParity ==
    /\ prog \in {"day10", "chatgpt"}
    /\ part = 1
    /\ \E n \in Sizes :
         \E first \in UNION {[1 .. k -> Idx(n)] : k \in 1 .. MaxWritten} :
           \E buttons \in {List(<<first>>)}
                             \cup {List(<<first, b>>) : b \in ButtonLists(n)} :
             \E lights \in [Idx(n) -> {0, 1}] :
                lines = <<Line(lights, buttons, Zeros(n))>>
    /\ Rest

Init == InitBinary \/ InitCounter

\* the example and the inputs made of its lines
InitExample ==
    /\ prog \in {"day10", "chatgpt"}
    /\ part \in {1, 2}
    /\ lines \in ExampleInputs
    /\ Rest

line == lines[li + 1]
Looping == pc = "loop" /\ li < Len(lines)

\* day10.py solve_part1, one pass of the for loop (lines 129-132)
solve_part1 ==
    /\ Looping /\ prog = "day10" /\ part = 1
    /\ LET p == parse_machine(line)
       IN  IF IndexError(Size(p.target), p.buttons)
           THEN /\ pc' = "raised"
                /\ UNCHANGED <<li, total, min_presses>>
           ELSE /\ min_presses' = solve_gf2(p.target, p.buttons)
                /\ total' = Plus(total, min_presses')
                /\ li' = li + 1
                /\ pc' = "loop"
    /\ args' = parse_machine(line)
    /\ UNCHANGED <<fetch_vars, day11_vars, script_vars, prog, part, lines, M, pivot_cols, r, c, x_lp, stage>>

\* day10.py solve_part2, one pass of the for loop (lines 141-145)
solve_part2 ==
    /\ Looping /\ prog = "day10" /\ part = 2
    /\ IF IndexError(Size(parse_joltage(line)), parse_machine(line).buttons)
       THEN /\ pc' = "raised"
            /\ UNCHANGED <<li, total, min_presses, x_lp, stage>>
       ELSE /\ \E o \in solve_joltage(parse_joltage(line),
                                      parse_machine(line).buttons) :
                  /\ x_lp' = o.x
                  /\ stage' = o.stage
                  /\ min_presses' = o.value
                  /\ total' = Plus(total, o.value)
            /\ li' = li + 1
            /\ pc' = "loop"
    /\ args' = [target |-> parse_joltage(line),
                buttons |-> parse_machine(line).buttons]
    /\ UNCHANGED <<fetch_vars, day11_vars, script_vars, prog, part, lines, M, pivot_cols, r, c>>

\* a faulty ArgsAfter: M shares its memory with target and A
ArgsAfterShared(a, Mx) ==
    LET m == Size(Mx[0]) - 1
    IN  [target |-> [i \in DOMAIN Mx |-> Mx[i][m]],
         A |-> [j \in Idx(m) |-> [i \in DOMAIN Mx |-> Mx[i][j]]]]

(* What the caller's target and A hold once M holds Mx.  np.array (lines   *)
(* 99-100) and concatenate(...).copy() (line 103) make M an array of its   *)
(* own: the swaps and XORs written to M reach neither target nor A.        *)
ArgsAfter(a, Mx) == a

\* a faulty StartRow: the pivot count of the machine before is kept
StartRowKept(before) == before

\* r = 0  (line 106), whatever the call before left
StartRow(before) == 0

\* a faulty NextColumn: the column is visited again
SameColumn(col) == col

\* for c in range(m): the column after col
NextColumn(col) == col + 1

\* compute_total_part1 calls gf2_solve_minweight: lines 169-170, 99-107
gf2_start ==
    /\ Looping /\ prog = "chatgpt" /\ part = 1
    /\ IF IndexError(Size(line.lights), line.buttons)
       THEN /\ pc' = "raised"
            /\ UNCHANGED <<M, pivot_cols, r, c, args>>
       ELSE /\ LET p == parse_line_part1(line)
               IN  /\ M' = Augmented(p.target, p.A)
                   /\ pivot_cols' = [i \in DOMAIN p.target |-> -1]
                   /\ args' = p
            /\ r' = StartRow(r)
            /\ c' = 0
            /\ pc' = "elim"
    /\ UNCHANGED <<fetch_vars, day11_vars, script_vars, prog, part, lines, li, total, x_lp, stage, min_presses>>

\* gf2_solve_minweight, one pass of "for c in range(m)" (lines 108-124)
gf2_column ==
    /\ pc = "elim"
    /\ LET rows == Size(M)
           m == Size(M[0]) - 1
           cand == {i \in r .. (rows - 1) : M[i][c] = 1}
       IN  IF cand = {}
           THEN /\ c' = NextColumn(c)
                /\ pc' = IF c' = m THEN "finish" ELSE "elim"
                /\ UNCHANGED <<M, pivot_cols, r>>
           ELSE /\ M' = Eliminate(M, MinOf(cand), r, c)
                /\ pivot_cols' = [pivot_cols EXCEPT ![r] = c]
                /\ r' = r + 1
                /\ IF r + 1 = rows
                   THEN c' = c /\ pc' = "finish"
                   ELSE /\ c' = NextColumn(c)
                        /\ pc' = IF c' = m THEN "finish" ELSE "elim"
    /\ args' = ArgsAfter(args, M')
    /\ UNCHANGED <<fetch_vars, day11_vars, script_vars, prog, part, lines, li, total, x_lp, stage, min_presses>>

\* gf2_solve_minweight lines 126-159, then total += in compute_total_part1
gf2_finish ==
    /\ pc = "finish"
    /\ min_presses' = MinWeight(M, pivot_cols, Size(M[0]) - 1)
    /\ total' = Plus(total, min_presses')
    /\ li' = li + 1
    /\ pc' = "loop"
    /\ UNCHANGED <<fetch_vars, day11_vars, script_vars, prog, part, lines, M, pivot_cols, r, c, x_lp, stage,
                   args>>

\* compute_total_part2, one pass of the for loop (lines 67-68)
compute_total_part2 ==
    /\ Looping /\ prog = "chatgpt" /\ part = 2
    /\ LET p == parse_line_part2(line)
           o == solve_machine_minpresses(p.target, p.A)
       IN  IF IndexError(Size(line.joltage), line.buttons) \/ o.raised
           THEN /\ pc' = "raised"
                /\ UNCHANGED <<li, total, min_presses>>
           ELSE /\ min_presses' = o.value
                /\ total' = Plus(total, o.value)
                /\ li' = li + 1
                /\ pc' = "loop"
    /\ args' = IF IndexError(Size(line.joltage), line.buttons) THEN args
               ELSE parse_line_part2(line)
    /\ UNCHANGED <<fetch_vars, day11_vars, script_vars, prog, part, lines, M, pivot_cols, r, c, x_lp, stage>>

\* return total
return_total ==
    /\ pc = "loop" /\ li = Len(lines)
    /\ pc' = "done"
    /\ UNCHANGED <<fetch_vars, day11_vars, script_vars, prog, part, lines, li, total, M, pivot_cols, r, c, x_lp,
                   stage, min_presses, args>>

NextBinary ==
    \/ solve_part1
    \/ gf2_start
    \/ gf2_column
    \/ gf2_finish
    \/ return_total

NextCounter ==
    \/ solve_part2
    \/ compute_total_part2
    \/ return_total

NextElim ==
    \/ gf2_start
    \/ gf2_column
    \/ gf2_finish
    \/ return_total

NextPart1 ==
    \/ solve_part1
    \/ return_total

NextJoltage ==
    \/ solve_part2
    \/ return_total

Next ==
    \/ solve_part1
    \/ solve_part2
    \/ gf2_start
    \/ gf2_column
    \/ gf2_finish
    \/ compute_total_part2
    \/ return_total

\* every small machine, either part
Spec == Init /\ [][Next]_vars
\* part 1 on every small machine
SpecBinary == InitBinary /\ [][NextBinary]_vars
\* part 2 on every small machine
SpecCounter == InitCounter /\ [][NextCounter]_vars
\* solve_part2 of day10.py on every small machine
SpecJoltage == InitJoltage /\ [][NextJoltage]_vars
\* compute_total_part1 of day10_chatgpt.py on every small machine
SpecElim == InitElim /\ [][NextElim]_vars
\* part 1 on machines whose buttons repeat indices
SpecParity == InitParity /\ [][NextBinary]_vars
\* solve_part1 of day10.py on two lines, the second any small machine
SpecPart1 == InitPart1 /\ [][NextPart1]_vars
\* both parts on inputs of several lines
SpecSequence == InitSequence /\ [][Next]_vars
\* both parts on the example
SpecExample == InitExample /\ [][Next]_vars

(***************************************************************************)
(* aoc_utils.py, fetch_problem_part2                                       *)
(*                                                                         *)
(* One pass of the for loop is one fetch.  A fetch ends in one of three    *)
(* ways: "raised", an exception in lines 70-84 (session.get,               *)
(* raise_for_status, the parser, get_text); "few", a page with fewer than  *)
(* two articles; "ok", a page with at least two.                           *)
(***************************************************************************)
MaxRetries == 5

Outcomes == {"raised", "few", "ok"}

\* a faulty MayRetry: attempt < max_retries
MayRetryAlways(a, n) == a < n

\* if attempt < max_retries - 1: continue  (lines 80 and 87)
MayRetry(a, n) == a < n - 1

\* the call fetch_problem_part2(year, day, max_retries)
InitFetch ==
    /\ max_retries \in 0 .. MaxRetries
    /\ attempt = 0
    /\ fetched = <<>>
    /\ fetch_pc = "loop"
    /\ fetch_result = ""
    /\ Day10Idle
    /\ Day11Idle
    /\ ScriptIdle

\* one pass of "for attempt in range(max_retries)" (lines 68-89)
fetch_attempt ==
    /\ fetch_pc = "loop"
    /\ attempt < max_retries
    /\ \E outcome \in Outcomes :
          /\ fetched' = Append(fetched, outcome)
          /\ IF outcome = "ok"
             THEN /\ fetch_pc' = "returned"
                  /\ fetch_result' = "articles[1]"
                  /\ UNCHANGED attempt
             ELSE IF MayRetry(attempt, max_retries)
             THEN /\ attempt' = attempt + 1
                  /\ UNCHANGED <<fetch_pc, fetch_result>>
             ELSE IF outcome = "few"
             THEN /\ fetch_pc' = "returned"
                  /\ fetch_result'
                        = "Part 2 not available yet. Complete Part 1 first!"
                  /\ UNCHANGED attempt
             ELSE /\ fetch_pc' = "raised"
                  /\ UNCHANGED <<attempt, fetch_result>>
    /\ UNCHANGED <<max_retries, day10_vars, day11_vars, script_vars>>

\* the for loop ran out: return "Part 2 not available yet." (line 91)
fetch_exhausted ==
    /\ fetch_pc = "loop"
    /\ attempt >= max_retries
    /\ fetch_pc' = "returned"
    /\ fetch_result' = "Part 2 not available yet."
    /\ UNCHANGED <<max_retries, attempt, fetched, day10_vars, day11_vars,
                   script_vars>>

NextFetch ==
    \/ fetch_attempt
    \/ fetch_exhausted

SpecFetch == InitFetch /\ [][NextFetch]_vars

(***************************************************************************)
(* day11.py, count_paths_dp                                                *)
(*                                                                         *)
(* A graph is the dict parse_graph builds: a function from the sources to  *)
(* their lists of targets.                                                 *)
(***************************************************************************)
MaxNodes == 3

NodeNames == <<"a", "b", "c", "d", "e", "f">>
Nodes == {NodeNames[i] : i \in 1 .. MaxNodes}

\* the elements of a list
Range(s) == {s[i] : i \in 1 .. Len(s)}

\* all_nodes (lines 53-55)
all_nodes(g) == DOMAIN g \cup UNION {Range(g[s]) : s \in DOMAIN g}

\* in_degree (lines 97-100)
in_degree(g) ==
    [n \in all_nodes(g) |->
        Cardinality({st \in UNION {{<<s, i>> : i \in 1 .. Len(g[s])} :
                                        s \in DOMAIN g} :
                          g[st[1]][st[2]] = n})]

\* the inner for loop of Kahn's algorithm (lines 109-112) from neighbor i
RECURSIVE Release(_, _, _, _)
Release(g, node, i, st) ==
    IF i > Len(g[node]) THEN st
    ELSE LET nb == g[node][i]
             deg == st.in_degree[nb] - 1
         IN  Release(g, node, i + 1,
                     [in_degree |-> [st.in_degree EXCEPT ![nb] = deg],
                      queue |-> IF deg = 0 THEN Append(st.queue, nb)
                                ELSE st.queue])

\* while queue: ... (lines 105-112); the result is topo_order
RECURSIVE Kahn(_, _, _)
Kahn(g, st, topo_order) ==
    IF st.queue = <<>> THEN topo_order
    ELSE LET node == Head(st.queue)
             popped == [in_degree |-> st.in_degree, queue |-> Tail(st.queue)]
         IN  Kahn(g,
                  IF node \in DOMAIN g THEN Release(g, node, 1, popped)
                  ELSE popped,
                  Append(topo_order, node))

(* A function held as its table of values: TLC keeps [x \in S |-> e] as   *)
(* the expression e and recomputes it at every application.                *)
Table(f) == f @@ <<>>

\* mask | (1 << i)
OrBit(mask, i) == IF MaskBit(mask, i) = 1 THEN mask ELSE mask + Pow2(i)

(* for mask in range(full_mask + 1) (lines 136-139).  The loop reads       *)
(* dp[node] and adds to dp[neighbor]; a node that is processed is not its  *)
(* own neighbor (Kahn's algorithm never emits a node with an edge to       *)
(* itself), so the additions of all masks are made at once.  add is the    *)
(* bit of the neighbor, -1 when it is not required.                        *)
AddMasks(dp, node, neighbor, add, full_mask) ==
    LET new_mask(mask) == IF add < 0 THEN mask ELSE OrBit(mask, add)
        from(nm) == {mask \in 0 .. full_mask :
                        dp[node][mask] > 0 /\ new_mask(mask) = nm}
        gain(nm) == Sum([k \in Idx(full_mask + 1) |->
                            IF k \in from(nm) THEN dp[node][k] ELSE 0])
    IN  Table([n \in DOMAIN dp |->
                  IF n = neighbor
                  THEN Table([nm \in 0 .. full_mask |-> dp[n][nm] + gain(nm)])
                  ELSE dp[n]])

\* for neighbor in graph[node] (lines 130-139), from neighbor i on
RECURSIVE AddNeighbors(_, _, _, _, _, _)
AddNeighbors(dp, g, node, i, required_idx, full_mask) ==
    IF i > Len(g[node]) THEN dp
    ELSE LET neighbor == g[node][i]
             add == IF neighbor \in DOMAIN required_idx
                    THEN required_idx[neighbor] ELSE -1
         IN  AddNeighbors(AddMasks(dp, node, neighbor, add, full_mask),
                          g, node, i + 1, required_idx, full_mask)

\* for node in topo_order (lines 127-139), from position k on
RECURSIVE Process(_, _, _, _, _, _)
Process(dp, g, topo_order, k, required_idx, full_mask) ==
    IF k > Len(topo_order) THEN dp
    ELSE LET node == topo_order[k]
         IN  Process(IF node \in DOMAIN g
                     THEN AddNeighbors(dp, g, node, 1, required_idx, full_mask)
                     ELSE dp,
                     g, topo_order, k + 1, required_idx, full_mask)

(* count_paths_dp.  all_nodes is a Python set, so the order in which the   *)
(* nodes without predecessor enter the queue (line 103) is not fixed:      *)
(* queue0 is that order.                                                   *)
count_paths_dp(g, s, e, req, queue0) ==
    LET required_idx ==
            CHOOSE f \in [req -> Idx(Cardinality(req))] :
                \A u, v \in req : f[u] = f[v] => u = v
        full_mask == Pow2(Cardinality(req)) - 1
        topo_order == Kahn(g, [in_degree |-> in_degree(g), queue |-> queue0],
                           <<>>)
        dp0 == [n \in all_nodes(g) |-> [mask \in 0 .. full_mask |-> 0]]
        dp1 == [dp0 EXCEPT ![s][0] = 1]
    IN  Process(dp1, g, topo_order, 1, required_idx, full_mask)[e][full_mask]

\* the orders in which the nodes of S can be listed
Orders(S) ==
    {q \in [1 .. Cardinality(S) -> S] : \A i, j \in DOMAIN q :
                                            q[i] = q[j] => i = j}

\* example2 of day11.py lines 169-181 and day11_test.py lines 4-16
example2 ==
    [n \in {"svr", "aaa", "fft", "bbb", "tty", "ccc", "ddd", "hub", "eee",
            "dac", "fff", "ggg", "hhh"} |->
        CASE n = "svr" -> <<"aaa", "bbb">>
          [] n = "aaa" -> <<"fft">>
          [] n = "fft" -> <<"ccc">>
          [] n = "bbb" -> <<"tty">>
          [] n = "tty" -> <<"ccc">>
          [] n = "ccc" -> <<"ddd", "eee">>
          [] n = "ddd" -> <<"hub">>
          [] n = "hub" -> <<"fff">>
          [] n = "eee" -> <<"dac">>
          [] n = "dac" -> <<"fff">>
          [] n = "fff" -> <<"ggg", "hhh">>
          [] n = "ggg" -> <<"out">>
          [] n = "hhh" -> <<"out">>]

\* the nodes reached from u along the edges E in at most k steps
RECURSIVE Reach(_, _, _)
Reach(E, S, k) ==
    IF k = 0 THEN S
    ELSE Reach(E, S \cup {ed[2] : ed \in {d \in E : d[1] \in S}}, k - 1)

\* no node is reached from one of its targets
Acyclic(E) ==
    \A ed \in E : ed[1] \notin Reach(E, {ed[2]}, MaxNodes)

\* the dict of a set of edges: targets listed in the order of NodeNames
GraphOf(E) ==
    [s \in {ed[1] : ed \in E} |->
        LET ts == {i \in 1 .. MaxNodes : <<s, NodeNames[i]>> \in E}
            asc == Ascending(ts)
        IN  [i \in 1 .. Len(asc) |-> NodeNames[asc[i]]]]

(* solve_part2 on example2, and count_paths_dp on every acyclic graph over *)
(* Nodes with at least one edge, start and end among its nodes.            *)
InitDay11 ==
    /\ \/ /\ graph = example2
          /\ start = "svr"
          /\ end = "out"
          /\ required_nodes = {"dac", "fft"}
       \/ /\ \E E \in SUBSET (Nodes \X Nodes) :
                E # {} /\ Acyclic(E) /\ graph = GraphOf(E)
          /\ start \in all_nodes(graph)
          /\ end \in all_nodes(graph)
          /\ required_nodes \in SUBSET Nodes
    /\ paths = -1
    /\ visited = {}
    /\ Day10Idle
    /\ FetchIdle
    /\ ScriptIdle

\* return count_paths_dp(graph, start, end, required_nodes)
call_count_paths_dp ==
    /\ paths = -1
    /\ graph # <<>>
    /\ \E queue0 \in Orders({n \in all_nodes(graph) : in_degree(graph)[n] = 0}) :
          paths' = count_paths_dp(graph, start, end, required_nodes, queue0)
    /\ UNCHANGED <<graph, start, end, required_nodes, visited, day10_vars,
                   fetch_vars, script_vars>>

NextDay11 == call_count_paths_dp

SpecDay11 == InitDay11 /\ [][NextDay11]_vars

(***************************************************************************)
(* day11.py, count_paths                                                   *)
(***************************************************************************)
\* a faulty visited.remove(start): nothing is removed
BacktrackNone(vis, node) == vis

\* visited.remove(start)  (line 32)
Backtrack(vis, node) == vis \ {node}

(* count_paths (lines 14-33) with the set it shares along the recursion:   *)
(* the value is [total, visited], the count returned and the set as the    *)
(* call leaves it.  VisitNeighbors is the for loop of lines 28-30 from     *)
(* neighbor i on, acc holding total_paths and visited so far.              *)
RECURSIVE count_paths(_, _, _, _)
RECURSIVE VisitNeighbors(_, _, _, _, _)
VisitNeighbors(g, node, e, i, acc) ==
    IF i > Len(g[node]) THEN acc
    ELSE LET neighbor == g[node][i]
         IN  IF neighbor \notin acc.visited
             THEN LET sub == count_paths(g, neighbor, e, acc.visited)
                  IN  VisitNeighbors(g, node, e, i + 1,
                                     [total |-> acc.total + sub.total,
                                      visited |-> sub.visited])
             ELSE VisitNeighbors(g, node, e, i + 1, acc)

count_paths(g, s, e, vis) ==
    IF s = e THEN [total |-> 1, visited |-> vis]
    ELSE IF s \notin DOMAIN g THEN [total |-> 0, visited |-> vis]
    ELSE LET looped == VisitNeighbors(g, s, e, 1,
                                      [total |-> 0, visited |-> vis \cup {s}])
         IN  [total |-> looped.total,
              visited |-> Backtrack(looped.visited, s)]

\* example of day11.py lines 153-162
example_graph ==
    [n \in {"aaa", "you", "bbb", "ccc", "ddd", "eee", "fff", "ggg", "hhh",
            "iii"} |->
        CASE n = "aaa" -> <<"you", "hhh">>
          [] n = "you" -> <<"bbb", "ccc">>
          [] n = "bbb" -> <<"ddd", "eee">>
          [] n = "ccc" -> <<"ddd", "eee", "fff">>
          [] n = "ddd" -> <<"ggg">>
          [] n = "eee" -> <<"out">>
          [] n = "fff" -> <<"out">>
          [] n = "ggg" -> <<"out">>
          [] n = "hhh" -> <<"ccc", "fff", "iii">>
          [] n = "iii" -> <<"out">>]

MaxEdges == 4

(* solve_part1 on the example, and count_paths on every graph over Nodes   *)
(* with one to MaxEdges edges, cycles and self loops included, start and   *)
(* end among its nodes.                                                    *)
InitPaths ==
    /\ \/ /\ graph = example_graph
          /\ start = "you"
          /\ end = "out"
       \/ /\ \E E \in SUBSET (Nodes \X Nodes) :
                E # {} /\ Cardinality(E) <= MaxEdges /\ graph = GraphOf(E)
          /\ start \in all_nodes(graph)
          /\ end \in all_nodes(graph)
    /\ required_nodes = {}
    /\ paths = -1
    /\ visited = {}
    /\ Day10Idle
    /\ FetchIdle
    /\ ScriptIdle

\* return count_paths(graph, start, end): visited is None, so a new set
call_count_paths ==
    /\ paths = -1
    /\ graph # <<>>
    /\ LET ret == count_paths(graph, start, end, {})
       IN  /\ paths' = ret.total
           /\ visited' = ret.visited
    /\ UNCHANGED <<graph, start, end, required_nodes, day10_vars, fetch_vars,
                   script_vars>>

NextPaths == call_count_paths

SpecPaths == InitPaths /\ [][NextPaths]_vars

(***************************************************************************)
(* day10.py, the statements at module level (lines 149-167)                *)
(***************************************************************************)
\* what one pass of the for loop of solve_part1 / solve_part2 adds
LineOutcomes(pt, ln) ==
    IF IndexError(IF pt = 1 THEN Size(ln.lights) ELSE Size(ln.joltage),
                  ln.buttons)
    THEN {[raised |-> TRUE, value |-> Inf]}
    ELSE IF pt = 1
    THEN {[raised |-> FALSE,
           value |-> solve_gf2(parse_machine(ln).target,
                               parse_machine(ln).buttons)]}
    ELSE {[raised |-> FALSE, value |-> o.value] :
             o \in solve_joltage(parse_joltage(ln), parse_machine(ln).buttons)}

\* solve_part1(ls) / solve_part2(ls) as a call: the total after k lines
RECURSIVE TotalOver(_, _, _)
TotalOver(pt, ls, k) ==
    IF k = 0 THEN {[raised |-> FALSE, value |-> Fin(0)]}
    ELSE {IF a.raised \/ o.raised THEN [raised |-> TRUE, value |-> Inf]
          ELSE [raised |-> FALSE, value |-> Plus(a.value, o.value)] :
             a \in TotalOver(pt, ls, k - 1), o \in LineOutcomes(pt, ls[k])}

\* a faulty Gate: the binary total must be the expected 7 as well
GateBoth(res1, res2) == res1 = Fin(7) /\ res2 = Fin(33)

\* if result2 == 33  (line 160)
Gate(res1, res2) == res2 = Fin(33)

(* The script on the example of the source, on the example with the lights *)
(* of its first line all off, and on the inputs made of example lines.     *)
InitScript ==
    /\ script_pc = "part1"
    /\ example_lines \in ExampleInputs
                           \cup {[example EXCEPT ![1].lights = Zeros(4)]}
    /\ result1 = NoResult
    /\ result2 = NoResult
    /\ data = <<>>
    /\ ans2 = NoResult
    /\ printed = <<>>
    /\ submitted = <<>>
    /\ Day10Idle
    /\ FetchIdle
    /\ Day11Idle

\* result1 = solve_part1(example); print(...)  (lines 154-155)
script_part1 ==
    /\ script_pc = "part1"
    /\ \E o \in TotalOver(1, example_lines, Len(example_lines)) :
          IF o.raised
          THEN script_pc' = "raised" /\ UNCHANGED <<result1, printed>>
          ELSE /\ result1' = o.value
               /\ printed' = Append(printed, <<"Example Part 1", o.value>>)
               /\ script_pc' = "part2"
    /\ UNCHANGED <<example_lines, result2, data, ans2, submitted, day10_vars,
                   fetch_vars, day11_vars>>

\* result2 = solve_part2(example); print(...)  (lines 157-158)
script_part2 ==
    /\ script_pc = "part2"
    /\ \E o \in TotalOver(2, example_lines, Len(example_lines)) :
          IF o.raised
          THEN script_pc' = "raised" /\ UNCHANGED <<result2, printed>>
          ELSE /\ result2' = o.value
               /\ printed' = Append(printed, <<"Example Part 2", o.value>>)
               /\ script_pc' = "check"
    /\ UNCHANGED <<example_lines, result1, data, ans2, submitted, day10_vars,
                   fetch_vars, day11_vars>>

\* if result2 == 33: ... else: print("Example failed!")  (lines 160, 166-167)
script_check ==
    /\ script_pc = "check"
    /\ IF Gate(result1, result2)
       THEN script_pc' = "get_data" /\ UNCHANGED printed
       ELSE /\ printed' = Append(printed, <<"Example failed!">>)
            /\ script_pc' = "end"
    /\ UNCHANGED <<example_lines, result1, result2, data, ans2, submitted,
                   day10_vars, fetch_vars, day11_vars>>

\* data = get_data(day=DAY, year=YEAR)  (line 162): some input, or it raises
script_get_data ==
    /\ script_pc = "get_data"
    /\ \/ /\ data' \in UNION {[1 .. k -> Machines] : k \in 1 .. MaxLines}
          /\ script_pc' = "solve"
       \/ /\ script_pc' = "raised"
          /\ UNCHANGED data
    /\ UNCHANGED <<example_lines, result1, result2, ans2, printed, submitted,
                   day10_vars, fetch_vars, day11_vars>>

\* ans2 = solve_part2(data); print(...)  (lines 163-164)
script_solve ==
    /\ script_pc = "solve"
    /\ \E o \in TotalOver(2, data, Len(data)) :
          IF o.raised
          THEN script_pc' = "raised" /\ UNCHANGED <<ans2, printed>>
          ELSE /\ ans2' = o.value
               /\ printed' = Append(printed, <<"Part 2", o.value>>)
               /\ script_pc' = "submit"
    /\ UNCHANGED <<example_lines, result1, result2, data, submitted,
                   day10_vars, fetch_vars, day11_vars>>

\* submit(ans2, part="b", day=DAY, year=YEAR)  (line 165)
script_submit ==
    /\ script_pc = "submit"
    /\ submitted' = Append(submitted, [answer |-> ans2, part |-> "b"])
    /\ script_pc' = "end"
    /\ UNCHANGED <<example_lines, result1, result2, data, ans2, printed,
                   day10_vars, fetch_vars, day11_vars>>

NextScript ==
    \/ script_part1
    \/ script_part2
    \/ script_check
    \/ script_get_data
    \/ script_solve
    \/ script_submit

SpecScript == InitScript /\ [][NextScript]_vars

(***************************************************************************)
(* visualize_day10.py, visualize_solution_process                          *)
(***************************************************************************)
\* solution = [(4, buttons[4]), (5, buttons[5])]  (line 163)
solution == <<4, 5>>

\* lines 178 and 185-201: state = [0] * n_lights, then the presses in turn
RECURSIVE ApplyPresses(_, _, _, _)
ApplyPresses(state, buttons, presses, k) ==
    IF k > Len(presses) THEN state
    ELSE ApplyPresses(ToggleFrom(state, buttons[presses[k]], 1), buttons,
                      presses, k + 1)

visualize_solution_process(ln) ==
    LET p == parse_machine(ln)
    IN  ApplyPresses(Zeros(Size(p.target)), p.buttons, solution, 1)

(***************************************************************************)
(* What a machine is meant to do, stated without the solvers.              *)
(***************************************************************************)
\* the places where index i is written in the buttons of S
Written(buttons, S, i) ==
    {jk \in UNION {{<<j, k>> : k \in DOMAIN buttons[j]} : j \in S} :
        buttons[jk[1]][jk[2]] = i}

\* the lights after each button of S was pressed once, from all off
LightsAfter(ln, S) ==
    [i \in DOMAIN ln.lights |-> Cardinality(Written(ln.buttons, S, i)) % 2]

\* the sets of buttons whose presses show the target lights
PressSets(ln) ==
    {S \in SUBSET DOMAIN ln.buttons : LightsAfter(ln, S) = ln.lights}

\* the counters after button j was pressed x[j] times, from all zero
CountersAfter(ln, x) ==
    [i \in DOMAIN ln.joltage |->
        Sum([j \in DOMAIN ln.buttons |-> x[j] * Occ(ln.buttons[j], i)])]

(* The press vectors that reach the target counts.  A press adds to some   *)
(* counter, so no button is pressed more often than the largest count.     *)
PressVectors(ln) ==
    {x \in [DOMAIN ln.buttons ->
               0 .. MaxOf({ln.joltage[i] : i \in DOMAIN ln.joltage})] :
        CountersAfter(ln, x) = ln.joltage}

AllZero(f) == \A i \in DOMAIN f : f[i] = 0

\* the state right after a solver call of this program and part returned
Returned(pr, pt) == prog = pr /\ part = pt /\ pc = "loop" /\ li >= 1
\* the line that call solved
solved == lines[li]
\* the number of buttons of that line
n_solved == Size(solved.buttons)

\* the group of the line that this part reads to size its machine
n_read(ln) == IF part = 1 THEN Size(ln.lights) ELSE Size(ln.joltage)

\* some button of the line holds an index outside [0, n)
OutOfRange(ln, n) ==
    \E j \in DOMAIN ln.buttons :
        \E k \in 1 .. Len(ln.buttons[j]) : ln.buttons[j][k] \notin Idx(n)

\* the bitstring and the brace group of the line differ in length
Mismatched(ln) == Size(ln.lights) # Size(ln.joltage)

\* a well-formed line that has no solution under either model
NoSolution(ln) ==
    /\ ~Mismatched(ln)
    /\ ~OutOfRange(ln, Size(ln.lights))
    /\ PressSets(ln) = {}
    /\ PressVectors(ln) = {}

(* How an aggregate treats a line: it adds zero, it adds float('inf'), it  *)
(* adds a positive number, or it aborts.                                   *)
Treatment(raised, value) ==
    IF raised THEN "abort"
    ELSE IF value.inf THEN "inf"
    ELSE IF value.n = 0 THEN "zero" ELSE "number"

\* the treatments the counter aggregate of the program gives the line
CounterTreatments(pr, ln) ==
    IF pr = "day10"
    THEN {Treatment(FALSE, o.value) :
             o \in solve_joltage(parse_joltage(ln), parse_machine(ln).buttons)}
    ELSE LET p == parse_line_part2(ln)
             o == solve_machine_minpresses(p.target, p.A)
         IN  {Treatment(o.raised, o.value)}

\* the line has a solution under the model of part pt
Solvable(ln, pt) ==
    IF pt = 1 THEN PressSets(ln) # {} ELSE PressVectors(ln) # {}

\* the minimum press count of a solvable line under the model of part pt
Minimum(ln, pt) ==
    IF pt = 1 THEN MinOf({Cardinality(S) : S \in PressSets(ln)})
    ELSE MinOf({Sum(x) : x \in PressVectors(ln)})

\* the sum of the minima of the first k lines
RECURSIVE SumOfMinima(_, _, _)
SumOfMinima(ls, pt, k) ==
    IF k = 0 THEN 0 ELSE Minimum(ls[k], pt) + SumOfMinima(ls, pt, k - 1)

\* the paths from u to e in the graph, as lists of nodes
RECURSIVE PathsFrom(_, _, _)
PathsFrom(g, u, e) ==
    IF u = e THEN {<<u>>}
    ELSE IF u \notin DOMAIN g THEN {}
    ELSE UNION {{<<u>> \o p : p \in PathsFrom(g, v, e)} : v \in Range(g[u])}

\* those that pass through every node of req
PathsThrough(g, u, e, req) ==
    {p \in PathsFrom(g, u, e) : req \subseteq Range(p)}

(* the simple paths of the graph that start at s and have k nodes: each    *)
(* extends a shorter one by an edge to a node not yet on it                *)
RECURSIVE SimpleFrom(_, _, _)
SimpleFrom(g, s, k) ==
    IF k = 1 THEN {<<s>>}
    ELSE {Append(pv[1], pv[2]) :
            pv \in {qv \in SimpleFrom(g, s, k - 1) \X all_nodes(g) :
                       LET last == qv[1][Len(qv[1])]
                       IN  /\ last \in DOMAIN g
                           /\ qv[2] \in Range(g[last])
                           /\ qv[2] \notin Range(qv[1])}}

\* the simple paths from s to e
SimplePaths(g, s, e) ==
    UNION {{p \in SimpleFrom(g, s, k) : p[k] = e} :
              k \in 1 .. Cardinality(all_nodes(g))}

\* the x in {0,1}^m that satisfy every row of the augmented matrix Mx
SolutionsOf(Mx) ==
    LET m == Size(Mx[0]) - 1
    IN  {x \in [Idx(m) -> {0, 1}] :
            \A i \in DOMAIN Mx :
                Sum([k \in Idx(m) |-> Mx[i][k] * x[k]]) % 2 = Mx[i][m]}

\* the augmented matrix gf2_solve_minweight starts from on the line
InitialAugmented(ln) ==
    Augmented(parse_line_part1(ln).target, parse_line_part1(ln).A)

\* the buttons a 0/1 vector presses
Pressed(x) == {j \in DOMAIN x : x[j] = 1}

\* what the solver of the program and part does with the line on its own
SolverOutcomes(pr, pt, ln) ==
    LET Raised == [raised |-> TRUE, value |-> Inf]
        Value(v) == [raised |-> FALSE, value |-> v]
    IN  IF IndexError(IF pt = 1 THEN Size(ln.lights) ELSE Size(ln.joltage),
                      ln.buttons)
        THEN {Raised}
        ELSE CASE pr = "day10" /\ pt = 1 ->
                    {Value(solve_gf2(parse_machine(ln).target,
                                     parse_machine(ln).buttons))}
               [] pr = "day10" /\ pt = 2 ->
                    {Value(o.value) :
                        o \in solve_joltage(parse_joltage(ln),
                                            parse_machine(ln).buttons)}
               [] pr = "chatgpt" /\ pt = 1 ->
                    {Value(IF PressSets(ln) = {} THEN Inf
                           ELSE Fin(Minimum(ln, 1)))}
               [] pr = "chatgpt" /\ pt = 2 ->
                    {solve_machine_minpresses(parse_line_part2(ln).target,
                                              parse_line_part2(ln).A)}

\* the aggregate over the first k lines when each is solved on its own
RECURSIVE Aggregates(_, _, _, _)
Aggregates(pr, pt, ls, k) ==
    IF k = 0 THEN {[raised |-> FALSE, value |-> Fin(0)]}
    ELSE {IF a.raised \/ o.raised THEN [raised |-> TRUE, value |-> Inf]
          ELSE [raised |-> FALSE, value |-> Plus(a.value, o.value)] :
             a \in Aggregates(pr, pt, ls, k - 1),
             o \in SolverOutcomes(pr, pt, ls[k])}

\* the input lines in every order
Reorderings(ls) ==
    {[i \in 1 .. Len(ls) |-> ls[q[i]]] : q \in Orders(1 .. Len(ls))}

(***************************************************************************)
(* Claims                                                                  *)
(***************************************************************************)

(* C1: for every machine whose toggle system has a solution,               *)
(* gf2_solve_minweight returns the minimum number of pressed buttons: a    *)
(* press set of that size shows the target lights and no smaller one does. *)
C1_MinWeightIsMinimum ==
    (Returned("chatgpt", 1) /\ PressSets(solved) # {})
        => /\ ~min_presses.inf
           /\ \E S \in PressSets(solved) : Cardinality(S) = min_presses.n
           /\ \A S \in PressSets(solved) : Cardinality(S) >= min_presses.n

\* C1: a solvable machine with a free unknown that needs two presses
C1_Witness ==
    /\ Returned("chatgpt", 1)
    /\ PressSets(solved) # {}
    /\ Free(pivot_cols, n_solved) # {}
    /\ min_presses = Fin(2)

(* C2: the brute-force oracle solve_gf2 returns the same value as          *)
(* gf2_solve_minweight on the same machine, for every small machine and    *)
(* any target bits.                                                        *)
C2_OracleAgrees ==
    Returned("chatgpt", 1)
        => min_presses = solve_gf2(parse_machine(solved).target,
                                   parse_machine(solved).buttons)

(* C3: for every machine that some press vector solves, solve_joltage      *)
(* returns the smallest number of presses reaching the target counts: a    *)
(* press vector of that sum reaches them and none of a smaller sum does,   *)
(* whichever optimal point linprog returned.                               *)
C3_JoltageIsMinimum ==
    (Returned("day10", 2) /\ PressVectors(solved) # {})
        => /\ ~min_presses.inf
           /\ \E x \in PressVectors(solved) : Sum(x) = min_presses.n
           /\ \A x \in PressVectors(solved) : Sum(x) >= min_presses.n

(* C4: omitting the rounding stage does not change the result: whenever    *)
(* the round, ceiling or floor candidate is accepted, its sum is the       *)
(* minimum the integer program of lines 111-122 yields for the machine.    *)
C4_RoundingIsOptimal ==
    (Returned("day10", 2) /\ stage \in {"round", "ceil", "floor"})
        => min_presses = milp(JoltageMatrix(Size(solved.joltage),
                                            solved.buttons),
                              solved.joltage)

\* C4: a rounding candidate was accepted for a machine needing presses
C4_Witness ==
    /\ Returned("day10", 2)
    /\ stage = "round"
    /\ min_presses.n >= 2
    /\ n_solved >= 2

(* C5: for every consistent machine, every press vector that               *)
(* gf2_solve_minweight evaluates shows the target lights when its pressed  *)
(* buttons are toggled from the all-off state.                             *)
C5_EvaluatedReproduceTarget ==
    (Returned("chatgpt", 1) /\ ~min_presses.inf)
        => \A x \in Evaluated(M, pivot_cols, n_solved) :
              {j \in DOMAIN x : x[j] = 1} \in PressSets(solved)

\* C5: a consistent machine for which several vectors were evaluated
C5_Witness ==
    /\ Returned("chatgpt", 1)
    /\ ~min_presses.inf
    /\ Cardinality(Evaluated(M, pivot_cols, n_solved)) >= 4
    /\ min_presses.n >= 1

(* C6: for an all-zero target, solve_gf2 and gf2_solve_minweight (all bits *)
(* 0) and solve_joltage (all counts 0) return 0, whatever the buttons.     *)
C6_ZeroTargetNeedsNoPress ==
    /\ (part = 1 /\ pc = "loop" /\ li >= 1 /\ AllZero(solved.lights))
          => min_presses = Fin(0)
    /\ (Returned("day10", 2) /\ AllZero(solved.joltage))
          => min_presses = Fin(0)

\* C6: solve_joltage returned for three buttons and all counts zero
C6_Witness ==
    /\ Returned("day10", 2)
    /\ AllZero(solved.joltage)
    /\ n_solved = 3
    /\ min_presses = Fin(0)

(* C7: solving the same machine twice yields the same value: the value a   *)
(* run of solve_joltage returned is the value of every run on this target  *)
(* and these buttons, whichever optimal point linprog returns to it.       *)
C7_SameValueEveryRun ==
    Returned("day10", 2)
        => \A o \in solve_joltage(parse_joltage(solved),
                                  parse_machine(solved).buttons) :
              o.value = min_presses

\* C7: a run whose linprog point is one of several optimal points
C7_Witness ==
    /\ Returned("day10", 2)
    /\ x_lp.den = 2
    /\ stage = "milp"
    /\ ~min_presses.inf

(* C8: on the three-machine example, solve_part1 returns 7, solve_part2    *)
(* returns 33 and the sum of solve_machine_minpresses is 33.               *)
C8_ExampleTotals ==
    (pc = "done" /\ lines = example)
        => /\ (prog = "day10" /\ part = 1) => total = Fin(7)
           /\ part = 2 => total = Fin(33)

\* C8: solve_part2 returned 33 for the example
C8_Witness ==
    pc = "done" /\ lines = example /\ prog = "day10" /\ part = 2
    /\ total = Fin(33)

(* C9: for target bits [0,1,1,0] and buttons (3) (1,3) (2) (2,3) (0,2)     *)
(* (0,1) the minimum binary press count is 2, and pressing buttons 4 and   *)
(* 5 from the all-off state yields the target.                             *)
C9_SingleMachine ==
    (Returned("day10", 1) /\ solved = example[1])
        => /\ min_presses = Fin(2)
           /\ visualize_solution_process(solved) = solved.lights
           /\ Len(solution) = min_presses.n

\* C9: solve_gf2 returned for the first machine of the example
C9_Witness ==
    Returned("day10", 1) /\ solved = example[1] /\ min_presses = Fin(2)

(* C10: for a machine that no press vector solves, the counter solver      *)
(* reports the failure as an outcome of its own and returns no value that  *)
(* the aggregator adds into the total: no such line is ever consumed.      *)
C10_FailureIsExplicit ==
    (part = 2 /\ li >= 1) => PressVectors(solved) # {}

(* C11: when the elimination loop has ended, gf2_solve_minweight takes its *)
(* infeasible exit exactly when no set of buttons shows the target lights, *)
(* and every row without a recorded pivot has all-zero coefficients.       *)
C11_InfeasibleExitIffNoSolution ==
    pc = "finish"
        => LET m == Size(M[0]) - 1
           IN  /\ Inconsistent(M, pivot_cols, m) <=> PressSets(line) = {}
               /\ \A i \in DOMAIN M :
                     pivot_cols[i] = -1 => \A j \in Idx(m) : M[i][j] = 0

\* C11: the infeasible exit is taken after a pivot was found and rows mixed
C11_Witness ==
    /\ pc = "finish"
    /\ Inconsistent(M, pivot_cols, Size(M[0]) - 1)
    /\ r >= 2
    /\ M # Augmented(parse_line_part1(line).target, parse_line_part1(line).A)

(* C12: when no subset of the buttons shows the target lights, solve_gf2   *)
(* returns 0 and solve_part1 adds that 0 to the total: the line is         *)
(* consumed and the total is what it was.                                  *)
C12_InfeasibleBinaryAddsZero ==
    [][(solve_part1 /\ pc' = "loop" /\ PressSets(line) = {})
          => (min_presses' = Fin(0) /\ total' = total /\ li' = li + 1)]_vars

\* C12: a machine without solution was consumed after one that counted
C12_Witness ==
    /\ Returned("day10", 1)
    /\ li = 2
    /\ PressSets(solved) = {}
    /\ min_presses = Fin(0)
    /\ total = Fin(1)

(* C13: a line holding a button index outside [0, n) is never consumed and *)
(* the run never returns an aggregate, whichever program and part runs and *)
(* whatever the earlier lines added to the total.                          *)
C13_BadIndexAborts ==
    \A k \in 1 .. Len(lines) :
        OutOfRange(lines[k], n_read(lines[k])) => (li < k /\ pc # "done")

\* C13: the run aborted on its second line, after the first one counted
C13_Witness ==
    /\ pc = "raised"
    /\ li = 1
    /\ total # Fin(0)
    /\ OutOfRange(line, n_read(line))

(* C14: a line whose bitstring and brace group differ in length is never   *)
(* consumed and the run never returns an aggregate.                        *)
C14_MismatchAborts ==
    \A k \in 1 .. Len(lines) :
        Mismatched(lines[k]) => (li < k /\ pc # "done")

(* C15: the matrix solve_joltage hands to its solvers holds, for counter i *)
(* and button j, the number of times i is written in button j.             *)
C15_MatrixCountsOccurrences ==
    Returned("day10", 2)
        => LET A == JoltageMatrix(Size(parse_joltage(solved)),
                                  parse_machine(solved).buttons)
           IN  \A i \in DOMAIN A : \A j \in DOMAIN A[i] :
                  A[i][j] = Occ(solved.buttons[j], i)

(* C16: within one program, the binary aggregate treats a machine without  *)
(* solution the way the counter aggregate of that program treats it: both  *)
(* add zero or both abort.                                                 *)
C16_OnePolicy ==
    (part = 1 /\ pc = "loop" /\ li >= 1 /\ NoSolution(solved))
        => CounterTreatments(prog, solved) = {Treatment(FALSE, min_presses)}

(* C17: in solve_part1 and solve_part2, once i lines have been processed   *)
(* the running total is the sum of the minimum press counts of the first i *)
(* machines, and the aggregate returned is the sum over all of them.       *)
C17_TotalIsSumOfMinima ==
    (prog = "day10" /\ pc \in {"loop", "done"}
                    /\ \A k \in 1 .. li : Solvable(lines[k], part))
        => total = Fin(SumOfMinima(lines, part, li))

(* C18: solve_joltage on the parsed target and buttons of a line yields    *)
(* the outcome of solve_machine_minpresses on parse_line_part2 of the same *)
(* line: the same number of presses, returned and not raised.              *)
C18_CounterSolversAgree ==
    Returned("day10", 2)
        => LET p == parse_line_part2(solved)
           IN  solve_machine_minpresses(p.target, p.A)
                  = [raised |-> FALSE, value |-> min_presses]

(* C19: fetch_problem_part2 makes at most max_retries fetches; no fetch    *)
(* follows one that found two articles; it goes on after every earlier     *)
(* fetch that raised or found fewer; an exception reaches the caller only  *)
(* from the last of max_retries fetches, and the "not available" messages  *)
(* are returned only when the last one found too few articles or when no   *)
(* fetch was allowed at all.                                               *)
C19_BoundedRetries ==
    fetch_pc # "idle"
        => LET n == Len(fetched)
           IN  /\ n <= max_retries
               /\ \A k \in 1 .. (n - 1) : fetched[k] # "ok"
               /\ fetch_pc = "loop"
                     => attempt = n /\ \A k \in 1 .. n : fetched[k] # "ok"
               /\ fetch_pc = "raised"
                     => n = max_retries /\ fetched[n] = "raised"
               /\ fetch_pc = "returned"
                     => IF n = 0
                        THEN max_retries = 0
                             /\ fetch_result = "Part 2 not available yet."
                        ELSE IF fetched[n] = "ok"
                        THEN fetch_result = "articles[1]"
                        ELSE /\ fetched[n] = "few"
                             /\ n = max_retries
                             /\ fetch_result
                                   = "Part 2 not available yet. Complete Part 1 first!"

\* C19: the third of three fetches raised, after a short page and an error
C19_Witness ==
    /\ fetch_pc = "raised"
    /\ max_retries = 3
    /\ fetched = <<"few", "raised", "raised">>

(* C20: on an acyclic graph, count_paths_dp returns the number of distinct *)
(* paths from start to end that pass through every required node.          *)
C20_DpCountsRequiredPaths ==
    paths # -1
        => paths = Cardinality(PathsThrough(graph, start, end, required_nodes))

(* C21: on every directed graph, cycles allowed, count_paths returns the   *)
(* number of simple paths from start to end and its visited set is empty   *)
(* again when the top-level call returns; the example gives 5.             *)
C21_CountsSimplePaths ==
    paths # -1
        => /\ paths = Cardinality(SimplePaths(graph, start, end))
           /\ visited = {}
           /\ (graph = example_graph => paths = 5)

(* C21 witness: a graph with a cycle through the start node and two simple *)
(* paths to the end has been counted.                                      *)
C21_Witness ==
    /\ paths = 2
    /\ visited = {}
    /\ \E v \in Range(graph[start]) :
          v # start /\ v \in DOMAIN graph /\ start \in Range(graph[v])

(* C22: when the elimination loop of gf2_solve_minweight ends, every row   *)
(* with a recorded pivot column holds 1 there and every other row holds 0  *)
(* in that column; the recorded columns strictly increase with the row;    *)
(* and no row from the pivot count r on has a recorded pivot.              *)
C22_ReducedEchelon ==
    pc = "finish"
        => /\ \A i \in DOMAIN M : pivot_cols[i] # -1 =>
                 /\ M[i][pivot_cols[i]] = 1
                 /\ \A k \in DOMAIN M : k # i => M[k][pivot_cols[i]] = 0
           /\ \A i, k \in DOMAIN M :
                 (i < k /\ pivot_cols[i] # -1 /\ pivot_cols[k] # -1)
                     => pivot_cols[i] < pivot_cols[k]
           /\ \A i \in DOMAIN M : i >= r => pivot_cols[i] = -1
           /\ \A i \in DOMAIN M : i < r => pivot_cols[i] # -1

(* C22 witness: the loop ended with two pivots, the second one not in the  *)
(* column next to the first, and a row left without pivot.                 *)
C22_Witness ==
    /\ pc = "finish"
    /\ r = 2
    /\ Size(M) = 3
    /\ pivot_cols[1] > pivot_cols[0] + 1

(* C23: in every state of the elimination loop of gf2_solve_minweight the  *)
(* vectors x over {0,1} that satisfy the current augmented matrix are the  *)
(* ones that satisfy the initial matrix [A^T | target].                    *)
C23_SolutionSetPreserved ==
    pc \in {"elim", "finish"}
        => SolutionsOf(M) = SolutionsOf(InitialAugmented(line))

(* C23 witness: a row swap and an XOR into another row have been made on a *)
(* machine that has a solution.                                            *)
C23_Witness ==
    /\ pc \in {"elim", "finish"}
    /\ r = 1
    /\ \E k \in DOMAIN M :
          /\ k > 0
          /\ M[0] = InitialAugmented(line)[k]
          /\ M[0] # InitialAugmented(line)[0]
    /\ \E i \in DOMAIN M :
          \A k \in DOMAIN M : M[i] # InitialAugmented(line)[k]
    /\ SolutionsOf(M) # {}

(* C24: on a consistent machine with k free unknowns, pressing the buttons *)
(* of a null-space vector built by gf2_solve_minweight leaves every light  *)
(* as it was, and the vectors obtained by XOR-ing subsets of the           *)
(* null-space vectors into the particular solution are 2^k distinct        *)
(* vectors, exactly the solutions of the machine; with k = 0 there is one. *)
C24_EvaluatedAreAllSolutions ==
    (pc = "finish" /\ ~Inconsistent(M, pivot_cols, Size(M[0]) - 1))
        => LET m == Size(M[0]) - 1
               free == Free(pivot_cols, m)
               evaluated == Evaluated(M, pivot_cols, m)
           IN  /\ \A fc \in free :
                     AllZero(LightsAfter(line,
                                 Pressed(NullVec(M, pivot_cols, m, fc))))
               /\ Cardinality(evaluated) = Pow2(Cardinality(free))
               /\ {Pressed(x) : x \in evaluated} = PressSets(line)

(* C24 witness: a consistent machine with two free unknowns, one of them   *)
(* tied to a pivot unknown, reached the end of the elimination.            *)
C24_Witness ==
    /\ pc = "finish"
    /\ ~Inconsistent(M, pivot_cols, Size(M[0]) - 1)
    /\ Cardinality(Free(pivot_cols, Size(M[0]) - 1)) = 2
    /\ \E fc \in Free(pivot_cols, Size(M[0]) - 1) :
          Cardinality(Pressed(NullVec(M, pivot_cols, Size(M[0]) - 1, fc))) >= 2
    /\ Cardinality(PressSets(line)) = 4

(* C25: for every button j and light i the toggle effect is 1 exactly when *)
(* i is written an odd number of times in button j: that is the entry      *)
(* parse_line_part1 builds in row j, and one press of button j in          *)
(* solve_gf2 changes light i, from any state, exactly in that case.        *)
C25_ToggleIsParity ==
    /\ (prog = "chatgpt" /\ pc \in {"elim", "finish"})
          => \A j \in DOMAIN line.buttons : \A i \in DOMAIN line.lights :
                parse_line_part1(line).A[j][i] = 1
                    <=> Cardinality(Written(line.buttons, {j}, i)) % 2 = 1
    /\ Returned("day10", 1)
          => \A j \in DOMAIN solved.buttons : \A i \in DOMAIN solved.lights :
               \A state \in [DOMAIN solved.lights -> {0, 1}] :
                  ToggleFrom(state, solved.buttons[j], 1)[i] # state[i]
                    <=> Cardinality(Written(solved.buttons, {j}, i)) % 2 = 1

(* C25 witness: solve_gf2 returned on a machine with a button that writes  *)
(* one index twice and another index once, next to a second button.        *)
C25_Witness ==
    /\ Returned("day10", 1)
    /\ Size(solved.buttons) = 2
    /\ \E j \in DOMAIN solved.buttons : \E k, l \in DOMAIN solved.lights :
          /\ Cardinality(Written(solved.buttons, {j}, k)) = 2
          /\ Cardinality(Written(solved.buttons, {j}, l)) = 1

C27_OrderIndependent ==
    /\ (pc = "loop" /\ li >= 1)
          => SolverOutcomes(prog, part, solved)
                = {[raised |-> FALSE, value |-> min_presses]}
    /\ pc = "done"
          => \A q \in Reorderings(lines) :
                Aggregates(prog, part, q, Len(q))
                    = {[raised |-> FALSE, value |-> total]}
    /\ pc = "raised"
          => \A q \in Reorderings(lines) :
                Aggregates(prog, part, q, Len(q))
                    = {[raised |-> TRUE, value |-> Inf]}

(* C27 witness: a total over two different machines with different press   *)
(* counts has been returned.                                               *)
C27_Witness ==
    /\ pc = "done"
    /\ Len(lines) = 2
    /\ lines[1] # lines[2]
    /\ ~total.inf
    /\ total.n >= 3
    /\ total.n # 2 * min_presses.n

(* C28: in solve_joltage neither the ceiling nor the floor candidate is    *)
(* ever the accepting stage: when the ceiling or the floor of the LP point *)
(* satisfies A x = target, the LP point is integral and round-to-nearest   *)
(* was accepted, so each returned value comes from round-to-nearest, from  *)
(* the integer program, or is the failure of linprog.                      *)
C28_CeilFloorNeverAccept ==
    Returned("day10", 2)
        => LET A == JoltageMatrix(Size(solved.joltage), solved.buttons)
               b == solved.joltage
           IN  /\ stage \in {"round", "milp", "lp_failed"}
               /\ (stage # "lp_failed"
                     /\ (Accepts(A, b, x_ceil(x_lp))
                            \/ Accepts(A, b, x_floor(x_lp))))
                     => /\ \A j \in DOMAIN x_lp.num :
                              x_lp.num[j] % x_lp.den = 0
                        /\ stage = "round"

(* C28 witness: linprog returned a fractional point whose ceiling, floor   *)
(* and nearest integers all differ from it, and the integer program gave   *)
(* the value.                                                              *)
C28_Witness ==
    /\ Returned("day10", 2)
    /\ stage = "milp"
    /\ \E j \in DOMAIN x_lp.num : x_lp.num[j] % x_lp.den # 0
    /\ x_ceil(x_lp) # x_floor(x_lp)
    /\ x_ceil(x_lp) # x_rounded(x_lp)
    /\ min_presses = Fin(2)

(* C29: the elimination loop of gf2_solve_minweight stays in bounds and   *)
(* terminates: the pivot count r stays between 0 and min(rows, m),         *)
(* pivot_cols is written at row indices below rows only, inside the loop a *)
(* pass can always be made, every pass visits the column after the one     *)
(* visited before or leaves the loop, and no pass is made at column m or   *)
(* beyond, so that the loop is left after at most m passes.                *)
C29_BoundsInLoop ==
    pc \in {"elim", "finish"}
        => LET rows == Size(M)
               m == Size(M[0]) - 1
           IN  /\ 0 <= r /\ r <= rows /\ r <= m
               /\ 0 <= c /\ c <= m
               /\ r <= c + 1
               /\ DOMAIN pivot_cols = Idx(rows)
               /\ pc = "elim" => (r < rows /\ c < m /\ r <= c)
               /\ pc = "elim" => ENABLED gf2_column

C29_ColumnsVisitedOnce ==
    gf2_column
        => /\ c < Size(M[0]) - 1
           /\ (c' = c + 1 \/ (c' = c /\ pc' = "finish"))
           /\ (pivot_cols' # pivot_cols
                 => /\ r < Size(M)
                    /\ pivot_cols' = [pivot_cols EXCEPT ![r] = c])

C29_EliminationTerminates ==
    /\ []C29_BoundsInLoop
    /\ [][C29_ColumnsVisitedOnce]_vars

(* C29 witness: the loop was left by the break at r = rows before the last *)
(* column was visited.                                                     *)
C29_Witness ==
    /\ pc = "finish"
    /\ r = Size(M)
    /\ r = 2
    /\ c < Size(M[0]) - 2

(* C30: in day10.py the puzzle input is fetched, solved and submitted      *)
(* (part b) only once the counter-model total of the example has been      *)
(* computed and is 33; when it is another value nothing is fetched or      *)
(* submitted and "Example failed!" is printed; the binary-model total of   *)
(* the example decides nothing: with a counter total of 33 the script goes *)
(* on to fetch whatever the binary total is.                               *)
C30_ExampleGatesSubmit ==
    /\ (script_pc \in {"get_data", "solve", "submit"}
          \/ data # <<>> \/ ans2 # NoResult \/ submitted # <<>>)
          => /\ result2 = Fin(33)
             /\ \A k \in DOMAIN printed : printed[k] # <<"Example failed!">>
    /\ (result2 # NoResult /\ result2 # Fin(33) /\ script_pc = "end")
          => /\ data = <<>>
             /\ submitted = <<>>
             /\ printed[Len(printed)] = <<"Example failed!">>
    /\ (result2 = Fin(33) /\ script_pc = "end")
          => /\ data # <<>>
             /\ submitted = <<[answer |-> ans2, part |-> "b"]>>
    /\ (result2 = Fin(33) /\ script_pc # "check")
          => script_pc \in {"get_data", "solve", "submit", "end", "raised"}

(* C30 witness: the answer was submitted after an example run whose        *)
(* counter total was 33 and whose binary total was not 7.                  *)
C30_Witness ==
    /\ script_pc = "end"
    /\ result2 = Fin(33)
    /\ result1 # Fin(7)
    /\ Len(submitted) = 1
    /\ Len(data) = 2

====
